---- MODULE Spec2Model ----
(***************************************************************************)
(* Model of index.js: the one-way synchronisation of the members of a      *)
(* source Webex room into a destination room.                              *)
(*                                                                         *)
(* The remote service holds the two rooms.  A run of main() fetches both   *)
(* rosters concurrently (Promise.all), computes the missing members,       *)
(* issues one addMember per missing member (Promise.allSettled), builds    *)
(* the report, starts the notifications without awaiting them and returns. *)
(* A run is entered through the CLI runner or through the Lambda handler.  *)
(*                                                                         *)
(* Optional values are sequences of length 0 (absent) or 1 (present).      *)
(* A promise carries, next to its state, the HTTP response it settled on   *)
(* (field http).                                                           *)
(* HTTP statuses are strings; an Error is modelled by its message, a       *)
(* sequence of the parts the template literal concatenates.                *)
(***************************************************************************)
EXTENDS Integers, Sequences, FiniteSets, TLC

\* ------------------------------------------------------------------ bounds
\* Largest number of memberships the source room holds.
MaxSrc == 2

\* Largest number of memberships the destination room holds initially.
MaxDst == 3

\* Longest value of SEND_RESULTS in the specification of the notifications.
MaxCfgLen == 4

\* The page cap of the roster request (&max=1000 in the source), scaled so
\* that a room of the model can exceed it.
PageMax == 2

\* ------------------------------------------------------------ input values
\* Membership records as the service returns them.  Two persons share a
\* display name (the display name does not identify a person) and their
\* personIds differ in letter case only.
Members ==
    { [personId |-> "A", personDisplayName |-> "Ann"],
      [personId |-> "a", personDisplayName |-> "Ann"],
      [personId |-> "B", personDisplayName |-> "Bob"] }

\* The runs of main(), in the order in which they are started.
Runs == {1, 2}

\* The two entry points of the script.
Modes == {"cli", "handler"}

\* The two roster requests of one run.
Rooms == {"src", "dst"}

\* Non-success statuses of the membership-read endpoint.
GetFailStatuses == {"401", "404"}

\* Non-success responses of the membership-create endpoint.
Conflict == [status |-> "409", text |-> "conflict"]
Forbidden == [status |-> "403", text |-> "forbidden"]

\* The success response of an endpoint, as far as the code reads it.
Success == [status |-> "200", text |-> ""]

\* Non-success status of the messages endpoint.
MsgFailStatus == "400"

\* Values of the SEND_RESULTS environment variable, as character sequences
\* (the undefined variable reads as the empty string, see sendReportToOf).
SendResultsValues ==
    { <<>>,
      <<" ", "x", ",">> }

\* The characters of the SEND_RESULTS values in the specification of the
\* notifications: an address character, white space, the delimiter.
CfgChars == {"x", " ", ","}

\* ----------------------------------------------------------------- helpers
Min(a, b) == IF a <= b THEN a ELSE b

\* All sequences over S of length at most n.
SeqsUpTo(S, n) == UNION { [1..k -> S] : k \in 0..n }

\* No element of s is repeated.
IsInjective(s) == \A i, j \in DOMAIN s : s[i] = s[j] => i = j

\* ------------------------------------------------- pure parts of index.js
\* getMembers: the request asks for one page of at most PageMax memberships
\* and returns data.items; nothing follows a further page.
Page(room) == SubSeq(room, 1, Min(Len(room), PageMax))

\* getMembers: new Error(`HTTP error ${response.status}`).
GetMembersError(status) == <<"HTTP error ", status>>

\* Mutant of AddMemberError: the message leaves the response out.
AddMemberErrorBare(response) == <<"HTTP error">>

\* addMember: new Error(`HTTP ${response.status} - ${text}`).
AddMemberError(response) == <<"HTTP ", response.status, " - ", response.text>>

\* sendReport: new Error(`HTTP ${response.status} - ${text}`).
SendReportError(status) == <<"HTTP ", status, " - ", "bad request">>

\* String(reason) of an Error: its name, then its message.
StringOfError(message) == <<"Error: ">> \o message

\* Mutant of dstMemberIds: the set is built from the display names.
dstMemberNames(dstMembers) ==
    { dstMembers[i].personDisplayName : i \in DOMAIN dstMembers }

\* main: new Set(dstMembers.map(item => item.personId)).
dstMemberIds(dstMembers) == { dstMembers[i].personId : i \in DOMAIN dstMembers }

\* Mutant of Differ: personIds compared without regard to letter case.
Lower(personId) == IF personId = "A" THEN "a" ELSE personId

DifferFirstOnly(srcMembers, dstMembers) ==
    LET absent(item) == item.personId \notin dstMemberIds(dstMembers)
        missing == SelectSeq(srcMembers, absent)
    IN  SubSeq(missing, 1, Min(Len(missing), 1))

DifferNormalized(srcMembers, dstMembers) ==
    LET ids == { Lower(dstMembers[i].personId) : i \in DOMAIN dstMembers }
        absent(item) == Lower(item.personId) \notin ids
    IN  SelectSeq(srcMembers, absent)

\* Mutant of Differ: a personId that occurred earlier in the source roster
\* is dropped.
DifferUnique(srcMembers, dstMembers) ==
    LET ids == { dstMembers[i].personId : i \in DOMAIN dstMembers }
        first(i) == \A j \in 1..(i - 1) : srcMembers[j].personId # srcMembers[i].personId
        keep == { i \in DOMAIN srcMembers : srcMembers[i].personId \notin ids /\ first(i) }
        nth(n) == CHOOSE i \in keep : Cardinality({ k \in keep : k <= i }) = n
    IN  [n \in 1..Cardinality(keep) |-> srcMembers[nth(n)]]

\* Mutant of Differ: nothing is filtered out.
DifferNoFilter(srcMembers, dstMembers) == srcMembers

\* main: srcMembers.filter(item => !dstMemberIds.has(item.personId)).
Differ(srcMembers, dstMembers) ==
    LET absent(item) == item.personId \notin dstMemberIds(dstMembers)
    IN  SelectSeq(srcMembers, absent)

\* The promise of one addMember call, before it settles.
PendingCall == [status |-> "pending", reason |-> <<>>, http |-> <<>>]

\* Mutant of AddRequests: every request is sent a second time.
AddRequestsTwice(toAdd) ==
    LET once == [i \in DOMAIN toAdd |-> [roomId |-> "dst", personId |-> toAdd[i].personId]]
    IN  once \o once

\* main: toAdd.map(member => addMember(webexToken, dstRoom, member.personId)):
\* one request per entry, carrying the room and the entry's personId.
AddRequests(toAdd) ==
    [i \in DOMAIN toAdd |-> [roomId |-> "dst", personId |-> toAdd[i].personId]]

\* Mutant of AllSettled: the first rejection ends the wait (Promise.all).
FirstRejectionOrAll(calls) ==
    \/ \E i \in DOMAIN calls : calls[i].status = "rejected"
    \/ \A i \in DOMAIN calls : calls[i].status = "fulfilled"

\* Mutant of AllSettled: the wait ends only when every call is fulfilled.
AllFulfilled(calls) == \A i \in DOMAIN calls : calls[i].status = "fulfilled"

\* Promise.allSettled: settled once no call is pending.
AllSettled(calls) == \A i \in DOMAIN calls : calls[i].status # "pending"

\* Mutant of SettledResults: the outcomes in the order of settlement.
ResultsInSettlementOrder(calls, order) == [k \in DOMAIN calls |-> calls[order[k]]]

\* Promise.allSettled: the array of outcomes, each at the index of its call
\* (the order in which the calls settled plays no part).
SettledResults(calls, order) == [i \in DOMAIN calls |-> calls[i]]

\* main: attempted: toAdd.length.
Attempted(toAdd) == Len(toAdd)

\* Mutant of Added: every settled outcome counts.
AddedAnyOutcome(results) == Len(results)

\* main: added: results.filter(r => r.status === 'fulfilled').length.
Added(results) ==
    Cardinality({ i \in DOMAIN results : results[i].status = "fulfilled" })

\* main: the value stored under the key personId of a failure entry.
FailedLabel(member) == member.personDisplayName

\* main: results.map((r, i) => rejected ? {personId: ..., error: ...} : null)
\*           .filter(Boolean), from index i on.
RECURSIVE FailedFrom(_, _, _)
FailedFrom(toAdd, results, i) ==
    IF i > Len(results)
    THEN <<>>
    ELSE (IF results[i].status = "rejected"
          THEN << [personId |-> FailedLabel(toAdd[i]),
                   error |-> StringOfError(results[i].reason)] >>
          ELSE <<>>)
         \o FailedFrom(toAdd, results, i + 1)

Failed(toAdd, results) == FailedFrom(toAdd, results, 1)

\* main: report = { attempted, added, failed }.
MakeReport(toAdd, results) ==
    [ attempted |-> Attempted(toAdd),
      added     |-> Added(results),
      failed    |-> Failed(toAdd, results) ]

\* Mutant of AssignReport: a report that is there already is kept.
AssignReportOnce(global, rep) == IF global = <<>> THEN <<rep>> ELSE global

\* main: report = { ... }: the value of the global `report` after the
\* assignment, whatever it held before.
AssignReport(global, rep) == <<rep>>

\* ---- sendReportTo.split(",").map(s => s.trim()).filter(Boolean)
\* process.env.SEND_RESULTS ?? "": an undefined variable reads as "".
sendReportToOf(env) == IF env = <<>> THEN <<>> ELSE env[1]

\* String.prototype.split(","): the pieces between the commas, empty pieces
\* included; the empty string splits into one empty piece.
RECURSIVE SplitFrom(_, _, _)
SplitFrom(str, i, piece) ==
    IF i > Len(str)
    THEN << piece >>
    ELSE IF str[i] = ","
         THEN << piece >> \o SplitFrom(str, i + 1, <<>>)
         ELSE SplitFrom(str, i + 1, Append(piece, str[i]))

Split(str) == SplitFrom(str, 1, <<>>)

\* String.prototype.trim(): drops leading and trailing white space.
RECURSIVE TrimStart(_)
TrimStart(str) ==
    IF str # <<>> /\ Head(str) = " " THEN TrimStart(Tail(str)) ELSE str

RECURSIVE TrimEnd(_)
TrimEnd(str) ==
    IF str # <<>> /\ str[Len(str)] = " "
    THEN TrimEnd(SubSeq(str, 1, Len(str) - 1))
    ELSE str

Trim(str) == TrimEnd(TrimStart(str))

\* Mutant of Recipients: the empty pieces are not filtered out.
RecipientsUnfiltered(str) ==
    LET pieces == Split(str)
    IN  [i \in DOMAIN pieces |-> Trim(pieces[i])]

\* The addresses a run notifies.
Recipients(str) ==
    LET pieces  == Split(str)
        trimmed == [i \in DOMAIN pieces |-> Trim(pieces[i])]
        nonEmpty(s) == s # <<>>
    IN  SelectSeq(trimmed, nonEmpty)

\* Mutant of Notifications: every sendReport is awaited before main goes on.
NotificationsAwaited(str, rep) ==
    LET to == Split(str)
        kept == SelectSeq([i \in DOMAIN to |-> Trim(to[i])], LAMBDA e : e # <<>>)
    IN  [i \in DOMAIN kept |-> [email |-> kept[i], results |-> rep, status |-> "fulfilled"]]

\* main: .map(email => sendReport(webexToken, email, report)): one request
\* per address, its markdown built from the report at the time of the call.
Notifications(str, rep) ==
    LET to == Recipients(str)
    IN  [i \in DOMAIN to |-> [email |-> to[i], results |-> rep, status |-> "pending"]]

\* ---- entry points
\* JSON.stringify of the report / of { error: ... }: the keys the text has.
ReportJson(rep) == [report |-> <<rep>>, error |-> <<>>]
ErrorJson(message) == [report |-> <<>>, error |-> message]

\* exports.handler, try branch.
HandlerResolved(rep) == [statusCode |-> "200", body |-> ReportJson(rep)]

\* Mutant of HandlerRejected: the error travels under a success status.
HandlerRejectedAs200(message) == [statusCode |-> "200", body |-> ErrorJson(message)]

\* exports.handler, catch branch: String(err.message ?? err).
HandlerRejected(message) == [statusCode |-> "500", body |-> ErrorJson(message)]

\* Mutant of PromiseAll: waits for both requests and never rejects.
PromiseAllNeverRejects(requests) ==
    IF \A k \in Rooms : requests[k].status \in {"fulfilled", "rejected"}
    THEN "fulfilled"
    ELSE "pending"

\* main: await Promise.all([getMembers(src), getMembers(dst)]): rejected as
\* soon as one request is rejected, fulfilled once both are fulfilled.
PromiseAll(requests) ==
    IF \E k \in Rooms : requests[k].status = "rejected" THEN "rejected"
    ELSE IF \A k \in Rooms : requests[k].status = "fulfilled" THEN "fulfilled"
    ELSE "pending"

\* The CLI process and its sendReport promises, none of which has a handler:
\* a rejected one is an unhandled rejection, which ends the process with
\* status 1; the process ends with status 0 once nothing is in flight.
CliExitCode(notifications) ==
    IF \E j \in DOMAIN notifications : notifications[j].status = "rejected"
    THEN <<"1">>
    ELSE IF \E j \in DOMAIN notifications : notifications[j].status = "pending"
         THEN <<>>
         ELSE <<"0">>

\* The membership the service creates for a person.
MemberOf(personId) == CHOOSE m \in Members : m.personId = personId

\* -------------------------------------------------------------------- state
VARIABLES
    srcRoom,       \* remote: memberships of the source room
    dstRoom,       \* remote: memberships of the destination room
    sendReportTo,  \* const sendReportTo, read once from the environment
    report,        \* the global `report` that main assigns (absent: <<>>)
    mode,          \* mode[r]: the entry point run r came through
    pc,            \* pc[r]: "idle", "fetching", "adding", "resolved", "rejected"
    fetches,       \* fetches[r][k]: the getMembers promise for room k
    error,         \* error[r]: the message main rejected with
    toAdd,         \* toAdd[r]: the missing list
    addRequests,   \* addRequests[r]: the membership-create requests sent
    calls,         \* calls[r][i]: the addMember promise of toAdd[r][i]
    order,         \* order[r]: the indices of calls[r] in settlement order
    out,           \* out[r]: the report main resolved with (absent: <<>>)
    notify,        \* notify[r][j]: the sendReport promise for address j
    printed,       \* printed[r]: what the CLI wrote to the console
    exitCode,      \* exitCode[r]: exit status of the CLI process (running: <<>>)
    response       \* response[r]: what the handler returned (absent: <<>>)

remote == <<srcRoom, dstRoom>>
entry  == <<printed, exitCode, response>>
adding == <<toAdd, addRequests, calls, order>>
vars   == <<srcRoom, dstRoom, sendReportTo, report, mode, pc, fetches, error,
            toAdd, addRequests, calls, order, out, notify, printed, exitCode,
            response>>

NoRequest == [status |-> "none", items |-> <<>>, reason |-> <<>>, http |-> <<>>]

Init ==
    /\ srcRoom \in SeqsUpTo(Members, MaxSrc)
    /\ dstRoom \in { s \in SeqsUpTo(Members, MaxDst) : IsInjective(s) }
    /\ \E env \in {<<>>} \cup { <<v>> : v \in SendResultsValues } :
           sendReportTo = sendReportToOf(env)
    /\ report = <<>>
    /\ mode = [r \in Runs |-> "none"]
    /\ pc = [r \in Runs |-> "idle"]
    /\ fetches = [r \in Runs |-> [k \in Rooms |-> NoRequest]]
    /\ error = [r \in Runs |-> <<>>]
    /\ toAdd = [r \in Runs |-> <<>>]
    /\ addRequests = [r \in Runs |-> <<>>]
    /\ calls = [r \in Runs |-> <<>>]
    /\ order = [r \in Runs |-> <<>>]
    /\ out = [r \in Runs |-> <<>>]
    /\ notify = [r \in Runs |-> <<>>]
    /\ printed = [r \in Runs |-> <<>>]
    /\ exitCode = [r \in Runs |-> <<>>]
    /\ response = [r \in Runs |-> <<>>]

Room(k) == IF k = "src" THEN srcRoom ELSE dstRoom

\* The process of run r has not exited.
Alive(r) == exitCode[r] = <<>>

\* main has returned or thrown.
Finished(r) == pc[r] \in {"resolved", "rejected"}

\* Run r has a request in flight.
InFlight(r) ==
    \/ \E k \in Rooms : fetches[r][k].status = "pending"
    \/ \E i \in DOMAIN calls[r] : calls[r][i].status = "pending"
    \/ \E j \in DOMAIN notify[r] : notify[r][j].status = "pending"

\* Run r is over: main has finished and its process has exited or has
\* nothing left in flight.
Over(r) == Finished(r) /\ (~Alive(r) \/ ~InFlight(r))

\* ------------------------------------------------------------------ actions
\* An entry point calls main(): both roster requests are sent.  Runs follow
\* one another through the same entry point: a run starts once the runs
\* before it are over.
Start(r, m) ==
    /\ pc[r] = "idle"
    /\ \A q \in Runs : q < r => Over(q) /\ mode[q] = m
    /\ mode' = [mode EXCEPT ![r] = m]
    /\ pc' = [pc EXCEPT ![r] = "fetching"]
    /\ fetches' = [fetches EXCEPT
                     ![r] = [k \in Rooms |-> [NoRequest EXCEPT !.status = "pending"]]]
    /\ UNCHANGED <<remote, sendReportTo, report, error, adding, out, notify, entry>>

\* main rejects with `message`: the CLI prints it and exits with status 1,
\* the handler returns the 500 response.
Reject(r, message) ==
    /\ pc' = [pc EXCEPT ![r] = "rejected"]
    /\ error' = [error EXCEPT ![r] = message]
    /\ IF mode[r] = "cli"
       THEN /\ printed' = [printed EXCEPT
                   ![r] = Append(@, [stream |-> "stderr", text |-> ErrorJson(message)])]
            /\ exitCode' = [exitCode EXCEPT ![r] = <<"1">>]
            /\ UNCHANGED response
       ELSE /\ response' = [response EXCEPT ![r] = <<HandlerRejected(message)>>]
            /\ UNCHANGED <<printed, exitCode>>

\* Both rosters are there: main computes the missing list and sends one
\* addMember request per entry.
Diff(r, srcMembers, dstMembers) ==
    LET missing == Differ(srcMembers, dstMembers)
    IN  /\ pc' = [pc EXCEPT ![r] = "adding"]
        /\ toAdd' = [toAdd EXCEPT ![r] = missing]
        /\ addRequests' = [addRequests EXCEPT ![r] = AddRequests(missing)]
        /\ calls' = [calls EXCEPT ![r] = [i \in DOMAIN missing |-> PendingCall]]
        /\ order' = [order EXCEPT ![r] = <<>>]

\* A roster request gets a success response: getMembers returns the page.
GetMembersOk(r, k) ==
    /\ fetches[r][k].status = "pending"
    /\ Alive(r)
    /\ LET now == [fetches[r] EXCEPT
                     ![k] = [status |-> "fulfilled", items |-> Page(Room(k)),
                             reason |-> <<>>, http |-> <<Success>>]]
       IN  /\ fetches' = [fetches EXCEPT ![r] = now]
           /\ IF pc[r] = "fetching" /\ PromiseAll(now) = "fulfilled"
              THEN Diff(r, now["src"].items, now["dst"].items)
              ELSE UNCHANGED <<pc, adding>>
    /\ UNCHANGED <<remote, sendReportTo, report, mode, error, out, notify, entry>>

\* A roster request gets a non-success response: getMembers throws.
GetMembersFail(r, k, status) ==
    /\ fetches[r][k].status = "pending"
    /\ Alive(r)
    /\ LET now == [fetches[r] EXCEPT
                     ![k] = [status |-> "rejected", items |-> <<>>,
                             reason |-> GetMembersError(status),
                             http |-> <<[status |-> status, text |-> ""]>>]]
       IN  /\ fetches' = [fetches EXCEPT ![r] = now]
           /\ IF pc[r] = "fetching" /\ PromiseAll(now) = "rejected"
              THEN Reject(r, now[k].reason)
              ELSE UNCHANGED <<pc, error, entry>>
    /\ UNCHANGED <<remote, sendReportTo, report, mode, adding, out, notify>>

\* Mutant of AddMemberOk: the request replaces the memberships of the
\* destination room by the one it names.
AddMemberOkReplacing(r, i) ==
    /\ pc[r] = "adding"
    /\ i \in DOMAIN calls[r]
    /\ calls[r][i].status = "pending"
    /\ dstRoom' = << MemberOf(addRequests[r][i].personId) >>
    /\ calls' = [calls EXCEPT
                   ![r][i] = [status |-> "fulfilled", reason |-> <<>>,
                              http |-> <<Success>>]]
    /\ order' = [order EXCEPT ![r] = Append(@, i)]
    /\ UNCHANGED <<srcRoom, sendReportTo, report, mode, pc, fetches, error, toAdd,
                   addRequests, out, notify, entry>>

\* The service creates the membership in the room the request names:
\* addMember returns true.
AddMemberOk(r, i) ==
    /\ pc[r] = "adding"
    /\ i \in DOMAIN calls[r]
    /\ calls[r][i].status = "pending"
    /\ LET request == addRequests[r][i]
           created == Append(Room(request.roomId), MemberOf(request.personId))
       IN  /\ request.personId \notin dstMemberIds(Room(request.roomId))
           /\ srcRoom' = IF request.roomId = "src" THEN created ELSE srcRoom
           /\ dstRoom' = IF request.roomId = "dst" THEN created ELSE dstRoom
    /\ calls' = [calls EXCEPT
                   ![r][i] = [status |-> "fulfilled", reason |-> <<>>,
                              http |-> <<Success>>]]
    /\ order' = [order EXCEPT ![r] = Append(@, i)]
    /\ UNCHANGED <<sendReportTo, report, mode, pc, fetches, error, toAdd,
                   addRequests, out, notify, entry>>

\* The service refuses the membership: addMember throws.  A person who is a
\* member already is refused as a duplicate.
AddMemberFail(r, i, resp) ==
    /\ pc[r] = "adding"
    /\ i \in DOMAIN calls[r]
    /\ calls[r][i].status = "pending"
    /\ resp = Conflict =>
           addRequests[r][i].personId \in dstMemberIds(Room(addRequests[r][i].roomId))
    /\ calls' = [calls EXCEPT
                   ![r][i] = [status |-> "rejected", reason |-> AddMemberError(resp),
                              http |-> <<resp>>]]
    /\ order' = [order EXCEPT ![r] = Append(@, i)]
    /\ UNCHANGED <<remote, sendReportTo, report, mode, pc, fetches, error, toAdd,
                   addRequests, out, notify, entry>>

\* Promise.allSettled resolves: main assigns the global `report`, starts the
\* notifications with it and returns it, all without an await in between;
\* the entry point surfaces the report.
Assemble(r) ==
    /\ pc[r] = "adding"
    /\ AllSettled(calls[r])
    /\ LET assigned == AssignReport(report,
                           MakeReport(toAdd[r], SettledResults(calls[r], order[r])))
           rep == assigned[1]
           sent == Notifications(sendReportTo, rep)
       IN  /\ report' = assigned
           /\ notify' = [notify EXCEPT ![r] = sent]
           /\ out' = [out EXCEPT ![r] = <<rep>>]
           /\ pc' = [pc EXCEPT ![r] = "resolved"]
           /\ IF mode[r] = "cli"
              THEN /\ printed' = [printed EXCEPT
                          ![r] = Append(@, [stream |-> "stdout", text |-> ReportJson(rep)])]
                   /\ exitCode' = [exitCode EXCEPT ![r] = CliExitCode(sent)]
                   /\ UNCHANGED response
              ELSE /\ response' = [response EXCEPT ![r] = <<HandlerResolved(rep)>>]
                   /\ UNCHANGED <<printed, exitCode>>
    /\ UNCHANGED <<remote, sendReportTo, mode, fetches, error, adding>>

\* A notification is delivered: sendReport resolves, nobody reads the value.
SendReportOk(r, j) ==
    /\ j \in DOMAIN notify[r]
    /\ notify[r][j].status = "pending"
    /\ Alive(r)
    /\ notify' = [notify EXCEPT ![r][j].status = "fulfilled"]
    /\ IF mode[r] = "cli"
       THEN exitCode' = [exitCode EXCEPT ![r] = CliExitCode(notify'[r])]
       ELSE UNCHANGED exitCode
    /\ UNCHANGED <<remote, sendReportTo, report, mode, pc, fetches, error, adding,
                   out, printed, response>>

\* A notification is refused: sendReport throws and nothing catches it.
SendReportFail(r, j) ==
    /\ j \in DOMAIN notify[r]
    /\ notify[r][j].status = "pending"
    /\ Alive(r)
    /\ notify' = [notify EXCEPT ![r][j].status = "rejected"]
    /\ IF mode[r] = "cli"
       THEN /\ exitCode' = [exitCode EXCEPT ![r] = CliExitCode(notify'[r])]
            /\ printed' = [printed EXCEPT
                   ![r] = Append(@, [stream |-> "stderr",
                                     text |-> ErrorJson(SendReportError(MsgFailStatus))])]
       ELSE UNCHANGED <<exitCode, printed>>
    /\ UNCHANGED <<remote, sendReportTo, report, mode, pc, fetches, error, adding,
                   out, response>>

Next ==
    \/ \E r \in Runs, m \in Modes : Start(r, m)
    \/ \E r \in Runs, k \in Rooms : GetMembersOk(r, k)
    \/ \E r \in Runs, k \in Rooms, status \in GetFailStatuses : GetMembersFail(r, k, status)
    \/ \E r \in Runs : \E i \in DOMAIN calls[r] : AddMemberOk(r, i)
    \/ \E r \in Runs : \E i \in DOMAIN calls[r] :
           \E resp \in {Conflict, Forbidden} : AddMemberFail(r, i, resp)
    \/ \E r \in Runs : Assemble(r)
    \/ \E r \in Runs : \E j \in DOMAIN notify[r] : SendReportOk(r, j)
    \/ \E r \in Runs : \E j \in DOMAIN notify[r] : SendReportFail(r, j)

Spec == Init /\ [][Next]_vars

\* Every roster request and every add-member request that is in flight
\* eventually gets its response, and a continuation of main that can run
\* does run.
Fairness ==
    /\ \A r \in Runs : \A k \in Rooms :
           WF_vars(GetMembersOk(r, k)
                   \/ \E status \in GetFailStatuses : GetMembersFail(r, k, status))
    /\ \A r \in Runs : \A i \in 1..PageMax :
           WF_vars(AddMemberOk(r, i)
                   \/ \E resp \in {Conflict, Forbidden} : AddMemberFail(r, i, resp))
    /\ \A r \in Runs : WF_vars(Assemble(r))

SpecFair == Init /\ [][Next]_vars /\ Fairness

\* The specification of the notifications: every value of SEND_RESULTS up
\* to MaxCfgLen characters (and the undefined one), one member to add.
InitNotify ==
    /\ srcRoom = << MemberOf("A") >>
    /\ dstRoom = <<>>
    /\ \E env \in {<<>>} \cup { <<v>> : v \in SeqsUpTo(CfgChars, MaxCfgLen) } :
           sendReportTo = sendReportToOf(env)
    /\ report = <<>>
    /\ mode = [r \in Runs |-> "none"]
    /\ pc = [r \in Runs |-> "idle"]
    /\ fetches = [r \in Runs |-> [k \in Rooms |-> NoRequest]]
    /\ error = [r \in Runs |-> <<>>]
    /\ toAdd = [r \in Runs |-> <<>>]
    /\ addRequests = [r \in Runs |-> <<>>]
    /\ calls = [r \in Runs |-> <<>>]
    /\ order = [r \in Runs |-> <<>>]
    /\ out = [r \in Runs |-> <<>>]
    /\ notify = [r \in Runs |-> <<>>]
    /\ printed = [r \in Runs |-> <<>>]
    /\ exitCode = [r \in Runs |-> <<>>]
    /\ response = [r \in Runs |-> <<>>]

SpecNotify == InitNotify /\ [][Next]_vars

\* The specification of overlapping invocations: the handler is invoked
\* again in the same process while an earlier invocation is at one of its
\* awaits.  The destination room starts empty.
InitOverlap ==
    /\ srcRoom \in SeqsUpTo(Members, MaxSrc)
    /\ dstRoom = <<>>
    /\ \E env \in {<<>>} \cup { <<v>> : v \in SendResultsValues } :
           sendReportTo = sendReportToOf(env)
    /\ report = <<>>
    /\ mode = [r \in Runs |-> "none"]
    /\ pc = [r \in Runs |-> "idle"]
    /\ fetches = [r \in Runs |-> [k \in Rooms |-> NoRequest]]
    /\ error = [r \in Runs |-> <<>>]
    /\ toAdd = [r \in Runs |-> <<>>]
    /\ addRequests = [r \in Runs |-> <<>>]
    /\ calls = [r \in Runs |-> <<>>]
    /\ order = [r \in Runs |-> <<>>]
    /\ out = [r \in Runs |-> <<>>]
    /\ notify = [r \in Runs |-> <<>>]
    /\ printed = [r \in Runs |-> <<>>]
    /\ exitCode = [r \in Runs |-> <<>>]
    /\ response = [r \in Runs |-> <<>>]

\* exports.handler is invoked: main() is called whatever the earlier
\* invocations are doing (they are numbered in the order of their calls).
StartOverlap(r) ==
    /\ pc[r] = "idle"
    /\ \A q \in Runs : q < r => pc[q] # "idle"
    /\ mode' = [mode EXCEPT ![r] = "handler"]
    /\ pc' = [pc EXCEPT ![r] = "fetching"]
    /\ fetches' = [fetches EXCEPT
                     ![r] = [k \in Rooms |-> [NoRequest EXCEPT !.status = "pending"]]]
    /\ UNCHANGED <<remote, sendReportTo, report, error, adding, out, notify, entry>>

NextOverlap ==
    \/ \E r \in Runs : StartOverlap(r)
    \/ \E r \in Runs, k \in Rooms : GetMembersOk(r, k)
    \/ \E r \in Runs, k \in Rooms, status \in GetFailStatuses : GetMembersFail(r, k, status)
    \/ \E r \in Runs : \E i \in DOMAIN calls[r] : AddMemberOk(r, i)
    \/ \E r \in Runs : \E i \in DOMAIN calls[r] :
           \E resp \in {Conflict, Forbidden} : AddMemberFail(r, i, resp)
    \/ \E r \in Runs : Assemble(r)
    \/ \E r \in Runs : \E j \in DOMAIN notify[r] : SendReportOk(r, j)
    \/ \E r \in Runs : \E j \in DOMAIN notify[r] : SendReportFail(r, j)

SpecOverlap == InitOverlap /\ [][NextOverlap]_vars

\* ------------------------------------------------------------------ claims
\* The report of run r (when out[r] is present).
Rep(r) == out[r][1]

\* The indices of the calls of run r that were rejected / fulfilled.
RejectedCalls(r) == { i \in DOMAIN calls[r] : calls[r][i].status = "rejected" }
FulfilledCalls(r) == { i \in DOMAIN calls[r] : calls[r][i].status = "fulfilled" }

\* The rosters run r fetched.
srcMembers(r) == fetches[r]["src"].items
dstMembers(r) == fetches[r]["dst"].items

\* The position, among the indices of I, of its member i.
Rank(I, i) == Cardinality({ k \in I : k <= i })

\* C1: in every report, added + failed.length = attempted = the length of
\* the missing list; with N calls issued and K of them rejected, added = N-K
\* and failed.length = K, whichever calls were rejected.
C1_Counts ==
    \A r \in Runs : out[r] # <<>> =>
        /\ Rep(r).added + Len(Rep(r).failed) = Rep(r).attempted
        /\ Rep(r).attempted = Len(toAdd[r])
        /\ Len(calls[r]) = Len(toAdd[r])
        /\ Rep(r).added = Len(calls[r]) - Cardinality(RejectedCalls(r))
        /\ Len(Rep(r).failed) = Cardinality(RejectedCalls(r))

\* C1 witness: a report of two calls of which exactly one was rejected.
C1_Witness ==
    \E r \in Runs :
        /\ out[r] # <<>>
        /\ Len(calls[r]) = 2
        /\ Cardinality(RejectedCalls(r)) = 1

\* C2: the missing list holds exactly the entries of the fetched source
\* roster whose personId equals no personId of the fetched destination
\* roster, in the order of the source roster.
C2_Differ ==
    \A r \in Runs : pc[r] \in {"adding", "resolved"} =>
        LET A == srcMembers(r)
            B == dstMembers(r)
            keep == { i \in DOMAIN A : \A j \in DOMAIN B : A[i].personId # B[j].personId }
        IN  /\ Len(toAdd[r]) = Cardinality(keep)
            /\ \A i \in keep : toAdd[r][Rank(keep, i)] = A[i]

\* C2 witness: a missing list of two entries taken from around a source
\* entry that is in the destination, whose personId differs from a kept one
\* in letter case only.
C2_Witness ==
    \E r \in Runs :
        /\ pc[r] = "adding"
        /\ Len(toAdd[r]) < Len(srcMembers(r))
        /\ \E i \in DOMAIN toAdd[r] : toAdd[r][i].personId = "a"
        /\ \E j \in DOMAIN dstMembers(r) : dstMembers(r)[j].personId = "A"

\* C3: one add-member request per entry of the missing list, addressed to
\* the destination room with the entry's personId, and none for a personId
\* of the fetched destination roster.
C3_Requests ==
    \A r \in Runs :
        /\ Len(addRequests[r]) = Len(toAdd[r])
        /\ \A i \in DOMAIN addRequests[r] :
              /\ addRequests[r][i].roomId = "dst"
              /\ addRequests[r][i].personId = toAdd[r][i].personId
              /\ \A j \in DOMAIN dstMembers(r) :
                    addRequests[r][i].personId # dstMembers(r)[j].personId

\* C3 witness: two requests sent while the fetched destination roster is
\* not empty.
C3_Witness ==
    \E r \in Runs :
        /\ Len(addRequests[r]) = 2
        /\ dstMembers(r) # <<>>

\* C4: a rejected add-member call never makes main() reject and never keeps
\* the report from being returned: main() rejects only without any call
\* issued, a report is returned only once every call has settled, and once
\* every call has settled the report can be returned, whichever calls were
\* rejected.
C4_Isolation ==
    \A r \in Runs :
        /\ pc[r] = "rejected" => calls[r] = <<>> /\ out[r] = <<>>
        /\ out[r] # <<>> =>
              \A i \in DOMAIN calls[r] : calls[r][i].status \in {"fulfilled", "rejected"}
        /\ RejectedCalls(r) # {} => pc[r] \in {"adding", "resolved"}
        /\ (pc[r] = "adding" /\ RejectedCalls(r) \cup FulfilledCalls(r) = DOMAIN calls[r])
              => ENABLED Assemble(r)

\* C4 witness: a report returned after all of two calls were rejected.
C4_Witness ==
    \E r \in Runs :
        /\ out[r] # <<>>
        /\ Len(calls[r]) = 2
        /\ RejectedCalls(r) = DOMAIN calls[r]

\* C5: the entries of report.failed are those of the rejected calls in the
\* order of the missing list: the k-th entry is the one built from the k-th
\* rejected index, whatever the order in which the calls settled.
C5_FailedOrder ==
    \A r \in Runs : out[r] # <<>> =>
        /\ Len(Rep(r).failed) = Cardinality(RejectedCalls(r))
        /\ \A i \in RejectedCalls(r) :
              LET failure == Rep(r).failed[Rank(RejectedCalls(r), i)]
              IN  /\ failure.personId = FailedLabel(toAdd[r][i])
                  /\ failure.error = <<"Error: ">> \o calls[r][i].reason

\* C5 witness: a report with two distinguishable failures whose calls
\* settled in the reverse of the order of the missing list.
C5_Witness ==
    \E r \in Runs :
        /\ out[r] # <<>>
        /\ order[r] = <<2, 1>>
        /\ Len(Rep(r).failed) = 2
        /\ Rep(r).failed[1] # Rep(r).failed[2]

\* C6: a roster request that fails makes main() reject with the error of
\* the request that failed first; a run with a failed roster request issues
\* no add-member request and returns no report, and its rejection and its
\* error stay as they are when the other request settles later.
C6_Step ==
    \A r \in Runs :
        /\ (\E k \in Rooms : fetches'[r][k].status = "rejected") =>
              /\ pc'[r] = "rejected"
              /\ addRequests'[r] = <<>> /\ calls'[r] = <<>>
              /\ out'[r] = <<>>
        /\ (pc[r] # "rejected" /\ pc'[r] = "rejected") =>
              \E k \in Rooms :
                  /\ fetches[r][k].status = "pending"
                  /\ fetches'[r][k].status = "rejected"
                  /\ error'[r] = fetches'[r][k].reason
        /\ pc[r] = "rejected" => pc'[r] = "rejected" /\ error'[r] = error[r]

C6_FailFast == [][C6_Step]_vars

\* C6 witness: both roster requests failed, with different errors, the
\* destination's first: main() rejected with the destination's error.
C6_Witness ==
    \E r \in Runs :
        /\ pc[r] = "rejected"
        /\ fetches[r]["src"].status = "rejected"
        /\ fetches[r]["dst"].status = "rejected"
        /\ fetches[r]["src"].reason # fetches[r]["dst"].reason
        /\ error[r] = fetches[r]["dst"].reason

\* C7: every entry of report.failed carries, as its identity, the personId
\* of the missing-list entry whose call was rejected.
C7_Identity ==
    \A r \in Runs : out[r] # <<>> =>
        \A i \in RejectedCalls(r) :
            Rep(r).failed[Rank(RejectedCalls(r), i)].personId = toAdd[r][i].personId

C9_DeliveryFailureIgnored ==
    \A r \in Runs :
        (\E j \in DOMAIN notify[r] : notify[r][j].status = "rejected") =>
            /\ out[r] # <<>>
            /\ mode[r] = "handler" =>
                  /\ response[r] # <<>>
                  /\ response[r][1].statusCode = "200"
                  /\ response[r][1].body.report = out[r]
            /\ mode[r] = "cli" => exitCode[r] # <<"1">>

\* C10: when main() resolves, the CLI prints the report and the handler
\* returns status 200 with the report as body; when main() rejects, the CLI
\* prints the error and exits with status 1 and the handler returns status
\* 500 with the error in its body; the handler returns a response for every
\* finished run.
C10_EntryPoints ==
    \A r \in Runs :
        /\ (pc[r] = "resolved" /\ mode[r] = "cli") =>
              /\ printed[r] # <<>>
              /\ printed[r][1].stream = "stdout"
              /\ printed[r][1].text.report = out[r]
              /\ printed[r][1].text.error = <<>>
        /\ (pc[r] = "resolved" /\ mode[r] = "handler") =>
              /\ response[r] # <<>>
              /\ response[r][1].statusCode = "200"
              /\ response[r][1].body.report = out[r]
              /\ response[r][1].body.error = <<>>
        /\ (pc[r] = "rejected" /\ mode[r] = "cli") =>
              /\ Len(printed[r]) = 1
              /\ printed[r][1].stream = "stderr"
              /\ printed[r][1].text.error = error[r]
              /\ exitCode[r] = <<"1">>
        /\ (pc[r] = "rejected" /\ mode[r] = "handler") =>
              /\ response[r] # <<>>
              /\ response[r][1].statusCode = "500"
              /\ response[r][1].body.error = error[r]
              /\ response[r][1].body.report = <<>>
              /\ error[r] # <<>>
        /\ (pc[r] \notin {"resolved", "rejected"}) =>
              response[r] = <<>> /\ printed[r] = <<>>

\* C10 witness: through the handler, a run that was rejected and a run that
\* returned a report.
C10_Witness ==
    /\ mode[1] = "handler" /\ pc[1] = "rejected" /\ response[1] # <<>>
    /\ mode[2] = "handler" /\ pc[2] = "resolved" /\ response[2] # <<>>

\* C11: no step removes a membership or changes the source room; the
\* destination room changes only by gaining the membership that a fulfilled
\* add-member call asked for; a step in which a roster request is sent or
\* settles changes neither room.
C11_Step ==
    /\ srcRoom' = srcRoom
    /\ \/ dstRoom' = dstRoom
       \/ \E r \in Runs : \E i \in DOMAIN calls[r] : \E m \in Members :
              /\ calls[r][i].status = "pending"
              /\ calls'[r][i].status = "fulfilled"
              /\ m.personId = addRequests[r][i].personId
              /\ dstRoom' = Append(dstRoom, m)
    /\ fetches' # fetches => (srcRoom' = srcRoom /\ dstRoom' = dstRoom)

C11_Additive == [][C11_Step]_vars

\* C11 witness: two runs have finished and the first one created a
\* membership in the destination room.
C11_Witness ==
    /\ Finished(1) /\ Finished(2)
    /\ FulfilledCalls(1) # {}
    /\ srcRoom # <<>>

Count(roster, personId) ==
    Cardinality({ i \in DOMAIN roster : roster[i].personId = personId })

\* C13: every copy of a personId of the fetched source roster that the
\* fetched destination roster lacks is in the missing list and gets its own
\* add-member request, and attempted counts every copy.
C13_NoDedup ==
    \A r \in Runs : pc[r] \in {"adding", "resolved"} =>
        /\ \A p \in dstMemberIds(srcMembers(r)) \ dstMemberIds(dstMembers(r)) :
              /\ Count(toAdd[r], p) = Count(srcMembers(r), p)
              /\ Count(addRequests[r], p) = Count(srcMembers(r), p)
        /\ out[r] # <<>> =>
              Rep(r).attempted =
                  Cardinality({ i \in DOMAIN srcMembers(r) :
                      srcMembers(r)[i].personId \notin dstMemberIds(dstMembers(r)) })

\* C13 witness: a report with attempted = 2 for a source roster that holds
\* one personId twice.
C13_Witness ==
    \E r \in Runs :
        /\ out[r] # <<>>
        /\ Rep(r).attempted = 2
        /\ Len(srcMembers(r)) = 2
        /\ srcMembers(r)[1].personId = srcMembers(r)[2].personId

\* message contains part.
Contains(message, part) == \E k \in DOMAIN message : message[k] = part

\* C14: the error main() rejects with contains the status of the failed
\* roster response, and the error of every failed entry contains the status
\* and the body of the non-success response to the add-member call at the
\* entry's index of the missing list.
C14_ErrorCarriesStatus ==
    \A r \in Runs :
        /\ pc[r] = "rejected" =>
              \E k \in Rooms :
                  /\ fetches[r][k].status = "rejected"
                  /\ fetches[r][k].http[1].status \in GetFailStatuses
                  /\ fetches[r][k].reason = error[r]
                  /\ Contains(error[r], fetches[r][k].http[1].status)
        /\ out[r] # <<>> =>
              \A i \in RejectedCalls(r) :
                  LET failure == Rep(r).failed[Rank(RejectedCalls(r), i)]
                  IN  /\ calls[r][i].http[1].status # "200"
                      /\ Contains(failure.error, calls[r][i].http[1].status)
                      /\ Contains(failure.error, calls[r][i].http[1].text)

\* C14 witness: a report whose two failed entries come from a duplicate
\* rejection (409) and from another refusal (403).
C14_Witness ==
    \E r \in Runs :
        /\ out[r] # <<>>
        /\ \E i, j \in RejectedCalls(r) :
              /\ calls[r][i].http = <<Conflict>>
              /\ calls[r][j].http = <<Forbidden>>

\* The pieces of str between its commas, as pairs of a first and a last
\* position (an empty piece has last = first - 1).
Pieces(str) ==
    { seg \in (1..(Len(str) + 1)) \X (0..Len(str)) :
        /\ seg[2] >= seg[1] - 1
        /\ seg[1] = 1 \/ str[seg[1] - 1] = ","
        /\ seg[2] = Len(str) \/ str[seg[2] + 1] = ","
        /\ \A k \in seg[1]..seg[2] : str[k] # "," }

\* The pieces that hold more than white space.
Entries(str) ==
    { seg \in Pieces(str) : \E k \in seg[1]..seg[2] : str[k] # " " }

\* An entry without the white space around it.
EntryText(str, seg) ==
    LET inked == { k \in seg[1]..seg[2] : str[k] # " " }
        lo == CHOOSE k \in inked : \A l \in inked : k <= l
        hi == CHOOSE k \in inked : \A l \in inked : k >= l
    IN  SubSeq(str, lo, hi)

\* C15: a run that returns a report starts one sendReport per entry of
\* SEND_RESULTS that holds more than white space, in the order of the
\* entries, addressed to the trimmed entry and carrying the report the run
\* returns; a blank or undefined SEND_RESULTS, and a run without a report,
\* start none.
C15_FanOut ==
    \A r \in Runs :
        /\ out[r] = <<>> => notify[r] = <<>>
        /\ out[r] # <<>> =>
              /\ Len(notify[r]) = Cardinality(Entries(sendReportTo))
              /\ \A seg \in Entries(sendReportTo) :
                    LET j == Cardinality({ t \in Entries(sendReportTo) : t[1] <= seg[1] })
                    IN  /\ notify[r][j].email = EntryText(sendReportTo, seg)
                        /\ notify[r][j].results = Rep(r)

\* C15 witness: a report and two notifications for a SEND_RESULTS value
\* with white space in it.
C15_Witness ==
    \E r \in Runs :
        /\ out[r] # <<>>
        /\ Len(notify[r]) = 2
        /\ \E k \in DOMAIN sendReportTo : sendReportTo[k] = " "

\* C16: in the step in which main() returns the report, the entry point
\* surfaces it (the handler returns its 200 response, the CLI prints) while
\* every notification the run started is still in flight: nothing waits for
\* a sendReport.
C16_Step ==
    \A r \in Runs :
        (out[r] = <<>> /\ out'[r] # <<>>) =>
            /\ pc'[r] = "resolved"
            /\ \A j \in DOMAIN notify'[r] : notify'[r][j].status = "pending"
            /\ mode[r] = "handler" =>
                  response'[r] # <<>> /\ response'[r][1].statusCode = "200"
            /\ mode[r] = "cli" => printed'[r] # <<>>

C16_NotAwaited == [][C16_Step]_vars

\* C16 witness: the handler has returned the report of a run whose
\* notification is still in flight.
C16_Witness ==
    \E r \in Runs :
        /\ mode[r] = "handler"
        /\ pc[r] = "resolved"
        /\ response[r] # <<>>
        /\ notify[r] # <<>>
        /\ notify[r][1].status = "pending"

\* C17: with overlapping invocations, the report an invocation returns,
\* the body of its response and the report each of its notifications
\* carries are the report built from its own missing list and its own
\* add-member outcomes.
C17_OwnReport ==
    \A r \in Runs : out[r] # <<>> =>
        /\ Rep(r) = MakeReport(toAdd[r], calls[r])
        /\ response[r] # <<>>
        /\ response[r][1].body.report = <<MakeReport(toAdd[r], calls[r])>>
        /\ \A j \in DOMAIN notify[r] :
              notify[r][j].results = MakeReport(toAdd[r], calls[r])

\* C17 witness: two invocations that overlapped (both asked for the same
\* person, whom the second one's roster did not show yet) have returned
\* different reports, with notifications sent.
C17_Witness ==
    /\ out[1] # <<>> /\ out[2] # <<>>
    /\ Rep(1) # Rep(2)
    /\ notify[1] # <<>> /\ notify[2] # <<>>
    /\ \E i \in FulfilledCalls(1) : \E j \in RejectedCalls(2) :
          /\ toAdd[1][i].personId = toAdd[2][j].personId
          /\ calls[2][j].http = <<Conflict>>

\* C18: when every roster request and every add-member request in flight
\* eventually settles, a run that has started eventually rejects or returns
\* its report; and as long as one of its add-member calls is pending the
\* run has neither returned a report nor finished.
C18_Terminates ==
    /\ \A r \in Runs : (pc[r] \in {"fetching", "adding"}) ~> Finished(r)
    /\ [](\A r \in Runs :
             (\E i \in DOMAIN calls[r] : calls[r][i].status = "pending") =>
                 (out[r] = <<>> /\ pc[r] = "adding"))

\* C18 witness: a second run has returned its report after both of its
\* add-member calls settled.
C18_Witness ==
    /\ pc[2] = "resolved"
    /\ Len(order[2]) = 2
    /\ out[2] # <<>>

\* The number of memberships that the runs after run r have created.
CreatedAfter(r) ==
    Cardinality(UNION { { <<q, i>> : i \in FulfilledCalls(q) } :
                        q \in { p \in Runs : p > r } })

\* The length the destination room had before run r created memberships,
\* provided nobody but the runs changed the room.
LenBefore(r) == Len(dstRoom) - CreatedAfter(r) - Cardinality(FulfilledCalls(r))

\* Both rosters that run r fetched are the whole rooms.
CompleteRosters(r) ==
    /\ srcMembers(r) = srcRoom
    /\ Len(dstMembers(r)) = LenBefore(r)

\* C19: when main has returned a report with an empty failed list and both
\* fetched rosters were complete, the destination room holds every personId
\* of the source roster, it still begins with the roster that was fetched,
\* and the memberships created after it are exactly the entries of the
\* missing list, one membership per entry.
C19_Postcondition ==
    \A r \in Runs :
        (out[r] # <<>> /\ Rep(r).failed = <<>> /\ CompleteRosters(r)) =>
            /\ dstMemberIds(srcRoom) \subseteq dstMemberIds(dstRoom)
            /\ SubSeq(dstRoom, 1, LenBefore(r)) = dstMembers(r)
            /\ Len(order[r]) = Len(toAdd[r])
            /\ \A k \in DOMAIN order[r] :
                  dstRoom[LenBefore(r) + k].personId = toAdd[r][order[r][k]].personId
            /\ \A i \in DOMAIN toAdd[r] : \E k \in DOMAIN order[r] : order[r][k] = i

\* C19 witness: a run that fetched a destination roster with a member in it
\* has returned after its two add-member calls succeeded, the second call
\* first.
C19_Witness ==
    /\ out[1] # <<>>
    /\ Rep(1).failed = <<>>
    /\ CompleteRosters(1)
    /\ dstMembers(1) # <<>>
    /\ order[1] = <<2, 1>>

====
